---- MODULE Spec2Model ----
(***************************************************************************)
(* Snagging List Report Writer: the report collection held by App, the     *)
(* editing copy held by ReportEditor, the in-flight FileReader reads and   *)
(* the localStorage entry, as a state machine.                             *)
(*                                                                         *)
(* Identifiers are template strings in the source (`snag-${Date.now()}`);  *)
(* here each is the tuple of the template's parts, <<"snag", now>>, so two *)
(* ids are equal exactly when the strings would be equal.  JavaScript null *)
(* is the record Null where an object is expected and NullString where a   *)
(* string is expected.  propertyAddress is a sequence of one-character     *)
(* strings, because the file name derivation inspects its characters.      *)
(***************************************************************************)
EXTENDS Integers, Sequences, FiniteSets, TLC

VARIABLES
    now,              \* the value Date.now() returns
    reports,          \* App: const [reports, setReports]
    store,            \* localStorage['snagging-reports'] (the value JSON.parse gives back)
    currentView,      \* App: 'dashboard' | 'editor'
    currentReportId,  \* App: string | null
    currentReport,    \* ReportEditor: const [currentReport, setCurrentReport]; Null when not mounted
    pending,          \* FileReader reads started by handlePhotoUpload, not yet completed
    rand,             \* position in the Math.random() stream
    edits,            \* number of things created or patched so far: reports, snags, fields, file reads
    pdf               \* the document handleExportPDF saved last, <<>> when there is none

vars == <<now, reports, store, currentView, currentReportId, currentReport,
          pending, rand, edits, pdf>>

----------------------------------------------------------------------------
(* Bounds of the model *)

MaxClock == 1
MaxReports == 2
MaxBatch == 2
MaxEdits == 4
DayLength == 2
MaxRoomSnags == 24
MaxSecondRoom == 2

----------------------------------------------------------------------------
(* Entity model *)

Null == [null |-> TRUE]
NullString == "null"

DEFAULT_ROOMS ==
    << "Front Elevation", "Rear Elevation", "Driveway/Parking", "Garden/Landscaping",
       "Hallway/Entrance", "Living Room", "Kitchen", "Dining Room", "Utility Room",
       "WC/Cloakroom", "Landing", "Master Bedroom", "En-Suite", "Bedroom 2",
       "Bedroom 3", "Bedroom 4", "Family Bathroom", "Garage", "Loft Space",
       "General/Miscellaneous" >>

SnagPriority == {"critical", "high", "medium", "low"}
SnagStatus == {"open", "in-progress", "resolved"}
ReportStatus == {"working", "complete", "archived"}

ReportId(t) == <<"report", t>>
RoomId(idx, t) == <<"room", idx, t>>
SnagId(t) == <<"snag", t>>
PhotoId(t, r) == <<"photo", t, r>>

\* new Date().toISOString().split('T')[0]: the calendar day of the clock value
ISODate(t) == <<"date", t \div DayLength>>

----------------------------------------------------------------------------
(* Array and object helpers of the language *)

Map(s, F(_)) == [i \in 1..Len(s) |-> F(s[i])]
Filter(s, T(_)) == SelectSeq(s, T)
Range(s) == {s[i] : i \in 1..Len(s)}

\* Array.prototype.find: the first element that satisfies T, else Null
Find(s, T(_)) ==
    IF \E i \in 1..Len(s) : T(s[i])
    THEN s[CHOOSE i \in 1..Len(s) : T(s[i]) /\ \A j \in 1..(i-1) : ~T(s[j])]
    ELSE Null

\* { ...a, ...b }
Spread(a, b) == [f \in (DOMAIN a) \cup (DOMAIN b) |-> IF f \in DOMAIN b THEN b[f] ELSE a[f]]

\* statement sequencing: the value v is computed, then F runs on it
Then(v, F(_)) == CHOOSE r \in {F(x) : x \in {v}} : TRUE

\* Array.prototype.reduce((sum, x) => sum + F(x), 0)
RECURSIVE ReduceSum(_, _, _)
ReduceSum(s, F(_), i) ==
    IF i > Len(s) THEN 0 ELSE F(s[i]) + ReduceSum(s, F, i + 1)

----------------------------------------------------------------------------
(* App *)

\* room ids built from the clock value alone, `room-${now}`
NewRooms_clock(t) == [i \in 1..Len(DEFAULT_ROOMS) |->
                  [id |-> RoomId(0, t), name |-> DEFAULT_ROOMS[i], snags |-> <<>>]]

NewRooms(t) == [i \in 1..Len(DEFAULT_ROOMS) |->
                  [id |-> RoomId(i - 1, t), name |-> DEFAULT_ROOMS[i], snags |-> <<>>]]

NewReport(t) ==
    [ id |-> ReportId(t),
      propertyAddress |-> <<>>,
      developerName |-> "",
      clientName |-> "",
      plotNumber |-> "",
      inspectionDate |-> ISODate(t),
      status |-> "working",
      rooms |-> NewRooms(t),
      coverPhoto |-> Null,
      createdAt |-> t,
      lastModified |-> t ]

\* useState initializer of ReportEditor
EditorInit(report, t) ==
    IF Len(report.rooms) = 0
    THEN [report EXCEPT !.rooms = NewRooms(t)]
    ELSE report

\* what App renders after a change: the editor is mounted when the view is
\* 'editor' and reports.find(r => r.id === currentReportId) is defined
FindReport(rs, id) == Find(rs, LAMBDA r : r.id = id)

\* useEffect(() => localStorage.setItem(REPORTS, JSON.stringify(reports)), [reports])
Persist(rs) == rs

\* useState(() => { const stored = localStorage.getItem(REPORTS);
\*                  return stored ? JSON.parse(stored) : [] })
\* a report tree holds strings, numbers, null, arrays and plain objects only, so
\* JSON.parse gives back the value JSON.stringify was given
Load(stored) == stored

\* a status change that also counts as a content edit
StatusChanged_touch(rs, id, status) ==
    Map(rs, LAMBDA r : IF r.id = id THEN [r EXCEPT !.status = status, !.lastModified = now] ELSE r)

StatusChanged(rs, id, status) ==
    Map(rs, LAMBDA r : IF r.id = id THEN [r EXCEPT !.status = status] ELSE r)

\* a save that stamps both timestamps
UpdatedReport_created(report, t) == [report EXCEPT !.lastModified = t, !.createdAt = t]

\* { ...currentReport, lastModified: Date.now() }
UpdatedReport(report, t) == [report EXCEPT !.lastModified = t]

SaveReport(rs, updatedReport) ==
    Map(rs, LAMBDA r : IF r.id = updatedReport.id THEN updatedReport ELSE r)

DeleteReport(rs, id) == Filter(rs, LAMBDA r : r.id # id)

----------------------------------------------------------------------------
(* ReportEditor: the state updaters passed to setCurrentReport *)

NewSnag(t) ==
    [ id |-> SnagId(t), location |-> "", description |-> "", priority |-> "medium",
      status |-> "open", photos |-> <<>>, createdAt |-> t ]

\* an add that puts the new snag first, [newSnag, ...room.snags]
AddSnag_prepend(prev, roomId, newSnag) ==
    [prev EXCEPT !.rooms = Map(prev.rooms, LAMBDA room :
        IF room.id = roomId
        THEN [room EXCEPT !.snags = <<newSnag>> \o room.snags]
        ELSE room)]

\* an add that opens a room for an id no room of the report has
AddSnag_orCreate(prev, roomId, newSnag) ==
    IF \E i \in 1..Len(prev.rooms) : prev.rooms[i].id = roomId
    THEN [prev EXCEPT !.rooms = Map(prev.rooms, LAMBDA room :
             IF room.id = roomId
             THEN [room EXCEPT !.snags = Append(room.snags, newSnag)]
             ELSE room)]
    ELSE [prev EXCEPT !.rooms =
             Append(prev.rooms, [id |-> roomId, name |-> "", snags |-> <<newSnag>>])]

AddSnag(prev, roomId, newSnag) ==
    [prev EXCEPT !.rooms = Map(prev.rooms, LAMBDA room :
        IF room.id = roomId
        THEN [room EXCEPT !.snags = Append(room.snags, newSnag)]
        ELSE room)]

\* an update that looks the snag up by its id alone
UpdateSnag_anyRoom(prev, roomId, snagId, updates) ==
    [prev EXCEPT !.rooms = Map(prev.rooms, LAMBDA room :
        [room EXCEPT !.snags = Map(room.snags, LAMBDA snag :
            IF snag.id = snagId THEN Spread(snag, updates) ELSE snag)])]

UpdateSnag(prev, roomId, snagId, updates) ==
    [prev EXCEPT !.rooms = Map(prev.rooms, LAMBDA room :
        IF room.id = roomId
        THEN [room EXCEPT !.snags = Map(room.snags, LAMBDA snag :
                 IF snag.id = snagId THEN Spread(snag, updates) ELSE snag)]
        ELSE room)]

\* snags.splice(snags.findIndex(s => s.id === snagId), 1): index -1 removes the last snag
DeleteSnag_splice(prev, roomId, snagId) ==
    [prev EXCEPT !.rooms = Map(prev.rooms, LAMBDA room :
        IF room.id = roomId /\ Len(room.snags) > 0
        THEN LET hit == {i \in 1..Len(room.snags) : room.snags[i].id = snagId}
                 at == IF hit = {} THEN Len(room.snags)
                       ELSE CHOOSE i \in hit : \A j \in hit : i <= j
             IN  [room EXCEPT !.snags = SubSeq(room.snags, 1, at - 1)
                                           \o SubSeq(room.snags, at + 1, Len(room.snags))]
        ELSE room)]

DeleteSnag(prev, roomId, snagId) ==
    [prev EXCEPT !.rooms = Map(prev.rooms, LAMBDA room :
        IF room.id = roomId
        THEN [room EXCEPT !.snags = Filter(room.snags, LAMBDA s : s.id # snagId)]
        ELSE room)]

\* a field update that also stamps lastModified
PropertyUpdate_touch(prev, field, value) ==
    Spread(prev, (field :> value) @@ ("lastModified" :> now + 1))

PropertyUpdate(prev, field, value) == Spread(prev, field :> value)

\* currentReport.rooms.find(r => r.id === roomId)?.snags.find(s => s.id === snagId)
FindSnag(report, roomId, snagId) ==
    LET room == Find(report.rooms, LAMBDA r : r.id = roomId)
    IN  IF room = Null THEN Null ELSE Find(room.snags, LAMBDA s : s.id = snagId)

----------------------------------------------------------------------------
(* Aggregate counts *)

\* a total that counts the rooms that have snags
totalSnags_rooms(report) ==
    ReduceSum(report.rooms, LAMBDA room : IF Len(room.snags) > 0 THEN 1 ELSE 0, 1)

totalSnags(report) == ReduceSum(report.rooms, LAMBDA room : Len(room.snags), 1)
openSnags(report) ==
    ReduceSum(report.rooms, LAMBDA room : Len(Filter(room.snags, LAMBDA s : s.status = "open")), 1)
criticalSnags(report) ==
    ReduceSum(report.rooms, LAMBDA room : Len(Filter(room.snags, LAMBDA s : s.priority = "critical")), 1)

dashboardReports ==
    Map(reports, LAMBDA r :
        [ id |-> r.id, propertyAddress |-> r.propertyAddress, developerName |-> r.developerName,
          clientName |-> r.clientName, plotNumber |-> r.plotNumber,
          inspectionDate |-> r.inspectionDate, lastModified |-> r.lastModified,
          status |-> r.status,
          totalSnags |-> ReduceSum(r.rooms, LAMBDA room : Len(room.snags), 1),
          openSnags |-> ReduceSum(r.rooms, LAMBDA room :
                           Len(Filter(room.snags, LAMBDA s : s.status = "open")), 1) ])

----------------------------------------------------------------------------
(* Inputs the handlers are called with *)

\* rooms the user selects in the sidebar, by position in the catalog
SelectedRooms == {1, 7}
NoSuchRoom == RoomId(Len(DEFAULT_ROOMS), 0)
NoSuchSnag == SnagId(-1)
NoSuchReport == ReportId(-1)

RoomIdInputs(report) == {report.rooms[i].id : i \in SelectedRooms} \cup {NoSuchRoom}
SnagIdInputs(report) ==
    UNION {{room.snags[j].id : j \in 1..Len(room.snags)} : room \in Range(report.rooms)}
        \cup {NoSuchSnag}
\* SnagCard is rendered for the snags of the selected room; the other pairs are
\* the not-found calls
SnagInputs(report) ==
    { rs \in RoomIdInputs(report) \X SnagIdInputs(report) :
        \/ rs[1] = NoSuchRoom
        \/ rs[2] = NoSuchSnag
        \/ \E room \in Range(report.rooms) :
              room.id = rs[1] /\ \E s \in Range(room.snags) : s.id = rs[2] }
PhotoIdInputs(report) ==
    UNION {UNION {{s.photos[k].id : k \in 1..Len(s.photos)} : s \in Range(room.snags)}
              : room \in Range(report.rooms)}
        \cup {PhotoId(-1, 0)}

StatusInputs == {"working", "complete"}

Address == <<"1", " ", " ", "A">>
FieldInputs ==
    { <<"propertyAddress", Address>>, <<"developerName", "Acme Homes">>,
      <<"clientName", "J Smith">>, <<"plotNumber", "12">>,
      <<"inspectionDate", ISODate(0)>> }

\* the patches SnagCard passes to onUpdate
SnagPatches ==
    { [location |-> "Under sink"], [description |-> "Leak"],
      [priority |-> "critical"], [status |-> "resolved"] }

\* a file of the FileList: its name and what reader.result holds at onloadend
Files == { [name |-> "a.jpg", result |-> "data:image/jpeg;base64,a"],
           [name |-> "b.jpg", result |-> NullString] }
FileLists == UNION {[1..n -> Files] : n \in 0..MaxBatch}

----------------------------------------------------------------------------
(* Initial state: nothing stored, App shows the dashboard *)

Init ==
    /\ now = 0
    /\ reports = <<>>
    /\ store = Persist(<<>>)
    /\ currentView = "dashboard"
    /\ currentReportId = <<>>
    /\ currentReport = Null
    /\ pending = <<>>
    /\ rand = 0
    /\ edits = 0
    /\ pdf = <<>>

EditorMounted == currentReport # Null

\* the clock advances between events
Tick ==
    /\ now < MaxClock
    /\ now' = now + 1
    /\ UNCHANGED <<reports, store, currentView, currentReportId, currentReport,
                   pending, rand, edits, pdf>>

----------------------------------------------------------------------------
(* App handlers (reachable from the Dashboard) *)

\* the ReportEditor instance App renders for the new view, Null for the Dashboard
Mount(rs, view, id) ==
    IF view = "editor" /\ FindReport(rs, id) # Null
    THEN EditorInit(FindReport(rs, id), now)
    ELSE Null

handleNewReport ==
    /\ ~EditorMounted
    /\ Len(reports) < MaxReports
    /\ edits < MaxEdits
    /\ edits' = edits + 1
    /\ LET newReport == NewReport(now)
       IN  /\ reports' = Append(reports, newReport)
           /\ currentReportId' = newReport.id
           /\ currentView' = "editor"
    /\ currentReport' = Mount(reports', currentView', currentReportId')
    /\ store' = Persist(reports')
    /\ UNCHANGED <<now, pending, rand, pdf>>

handleOpenReport ==
    /\ ~EditorMounted
    /\ \E id \in {r.id : r \in Range(reports)} :
          /\ currentReportId' = id
          /\ currentView' = "editor"
    /\ currentReport' = Mount(reports, currentView', currentReportId')
    /\ UNCHANGED <<now, reports, store, pending, rand, edits, pdf>>

handleDeleteReport ==
    /\ ~EditorMounted
    /\ \E id \in {r.id : r \in Range(reports)}, confirmed \in BOOLEAN :
          /\ confirmed
          /\ reports' = DeleteReport(reports, id)
    /\ store' = Persist(reports')
    /\ UNCHANGED <<now, currentView, currentReportId, currentReport,
                   pending, rand, edits, pdf>>

\* a status change whose collection change is not followed by the persistence effect
handleStatusChange_unstored ==
    /\ ~EditorMounted
    /\ \E id \in {r.id : r \in Range(reports)} \cup {NoSuchReport}, status \in StatusInputs :
          reports' = StatusChanged(reports, id, status)
    /\ UNCHANGED <<now, store, currentView, currentReportId, currentReport,
                   pending, rand, edits, pdf>>

handleStatusChange ==
    /\ ~EditorMounted
    /\ \E id \in {r.id : r \in Range(reports)} \cup {NoSuchReport}, status \in StatusInputs :
          reports' = StatusChanged(reports, id, status)
    /\ store' = Persist(reports')
    /\ UNCHANGED <<now, currentView, currentReportId, currentReport,
                   pending, rand, edits, pdf>>

\* onBack: the editor unmounts; its state, its timer and the callbacks of its
\* pending reads no longer reach any mounted component
handleBackToDashboard ==
    /\ EditorMounted
    /\ currentView' = "dashboard"
    /\ currentReportId' = <<>>
    /\ currentReport' = Null
    /\ pending' = <<>>
    /\ UNCHANGED <<now, reports, store, rand, edits, pdf>>

\* the page is closed or crashes and the app starts again: every useState of
\* App runs its initializer, the collection is read back from the store, no
\* editor is mounted, and the effect writes the loaded collection
Crash ==
    /\ reports' = Load(store)
    /\ currentView' = "dashboard"
    /\ currentReportId' = <<>>
    /\ currentReport' = Null
    /\ pending' = <<>>
    /\ store' = Persist(reports')
    /\ UNCHANGED <<now, rand, edits, pdf>>

----------------------------------------------------------------------------
(* ReportEditor handlers *)

\* a save whose collection change is not followed by the persistence effect
handleSave_unstored ==
    /\ EditorMounted
    /\ LET updatedReport == UpdatedReport(currentReport, now)
       IN  reports' = SaveReport(reports, updatedReport)
    /\ UNCHANGED <<now, store, currentView, currentReportId, currentReport,
                   pending, rand, edits, pdf>>

\* isSaving only relabels and disables the Save button for 500 ms; like the
\* other presentation state of the editor (selected room, expanded rooms, open
\* template menu) it is not part of the report state
handleSave ==
    /\ EditorMounted
    /\ LET updatedReport == UpdatedReport(currentReport, now)
       IN  reports' = SaveReport(reports, updatedReport)
    /\ store' = Persist(reports')
    /\ UNCHANGED <<now, currentView, currentReportId, currentReport,
                   pending, rand, edits, pdf>>

handlePropertyUpdate ==
    /\ EditorMounted
    /\ edits < MaxEdits
    /\ \E fv \in FieldInputs :
          currentReport' = PropertyUpdate(currentReport, fv[1], fv[2])
    /\ edits' = edits + 1
    /\ UNCHANGED <<now, reports, store, currentView, currentReportId,
                   pending, rand, pdf>>

handleAddSnag ==
    /\ EditorMounted
    /\ edits < MaxEdits
    /\ \E roomId \in RoomIdInputs(currentReport) :
          currentReport' = AddSnag(currentReport, roomId, NewSnag(now))
    /\ edits' = edits + 1
    /\ UNCHANGED <<now, reports, store, currentView, currentReportId,
                   pending, rand, pdf>>

handleUpdateSnag ==
    /\ EditorMounted
    /\ edits < MaxEdits
    /\ \E rs \in SnagInputs(currentReport), updates \in SnagPatches :
          currentReport' = UpdateSnag(currentReport, rs[1], rs[2], updates)
    /\ edits' = edits + 1
    /\ UNCHANGED <<now, reports, store, currentView, currentReportId,
                   pending, rand, pdf>>

handleDeleteSnag ==
    /\ EditorMounted
    /\ \E rs \in SnagInputs(currentReport) :
          currentReport' = DeleteSnag(currentReport, rs[1], rs[2])
    /\ UNCHANGED <<now, reports, store, currentView, currentReportId,
                   pending, rand, edits, pdf>>

\* photos the onloadend closure spreads: it reads the currentReport of the
\* render in which handlePhotoUpload ran, an immutable value
ClosurePhotos(snapshot, roomId, snagId) ==
    LET snag == FindSnag(snapshot, roomId, snagId)
    IN  IF snag = Null THEN <<>> ELSE snag.photos

\* Array.from(files).forEach(file => ... reader.readAsDataURL(file)): the reads
\* started by one call, each with the closure its onloadend will run in
Reads(snapshot, roomId, snagId, files) ==
    [i \in 1..Len(files) |->
        [ roomId |-> roomId, snagId |-> snagId, file |-> files[i],
          photos |-> ClosurePhotos(snapshot, roomId, snagId) ]]

\* one FileReader per file; each read completes on its own later
handlePhotoUpload ==
    /\ EditorMounted
    /\ \E rs \in SnagInputs(currentReport), files \in FileLists :
          /\ edits + Len(files) <= MaxEdits
          /\ edits' = edits + Len(files)
          /\ pending' = pending \o Reads(currentReport, rs[1], rs[2], files)
    /\ UNCHANGED <<now, reports, store, currentView, currentReportId, currentReport,
                   rand, pdf>>

RemoveAt(s, i) == SubSeq(s, 1, i - 1) \o SubSeq(s, i + 1, Len(s))

\* reader.onloadend of the read pending[i]; r is the draw of Math.random(),
\* taken as different at every draw
LoadEnd(prev, read, t, r) ==
    LET photo == [id |-> PhotoId(t, r), url |-> read.file.result, name |-> read.file.name]
    IN  UpdateSnag(prev, read.roomId, read.snagId, [photos |-> Append(read.photos, photo)])

onloadend(i) ==
    /\ EditorMounted
    /\ i \in 1..Len(pending)
    /\ currentReport' = LoadEnd(currentReport, pending[i], now, rand)
    /\ rand' = rand + 1
    /\ pending' = RemoveAt(pending, i)
    /\ UNCHANGED <<now, reports, store, currentView, currentReportId,
                   edits, pdf>>

RemovePhoto(report, roomId, snagId, photoId) ==
    LET snag == FindSnag(report, roomId, snagId)
    IN  IF snag # Null
        THEN UpdateSnag(report, roomId, snagId,
                 [photos |-> Filter(snag.photos, LAMBDA p : p.id # photoId)])
        ELSE report

handleRemovePhoto ==
    /\ EditorMounted
    /\ \E rs \in SnagInputs(currentReport), photoId \in PhotoIdInputs(currentReport) :
          currentReport' = RemovePhoto(currentReport, rs[1], rs[2], photoId)
    /\ UNCHANGED <<now, reports, store, currentView, currentReportId,
                   pending, rand, edits, pdf>>

\* String.prototype.replace(/\s+/g, '-')
RECURSIVE CollapseWhitespace(_, _)
CollapseWhitespace(s, i) ==
    IF i > Len(s) THEN <<>>
    ELSE IF s[i] = " "
         THEN (IF i > 1 /\ s[i - 1] = " " THEN <<>> ELSE <<"-">>) \o CollapseWhitespace(s, i + 1)
         ELSE <<s[i]>> \o CollapseWhitespace(s, i + 1)

FileName(address) ==
    LET replaced == CollapseWhitespace(address, 1)
    IN  <<"snagging-report-">> \o (IF replaced = <<>> THEN <<"report">> ELSE replaced) \o <<".pdf">>

----------------------------------------------------------------------------
(* handleExportPDF: the calls made on the jsPDF document, in order.  A text  *)
(* built by a template string is the tuple of the template's parts.  Each   *)
(* call is recorded with the page it draws on and the statement that made   *)
(* it ("heading", "marker", "summary", "secondary", "cover").               *)

\* jsPDF('p', 'mm', 'a4'): pageSize.getHeight() is 841.89 pt = 297.0000833 mm; the
\* cursor y only takes whole values, for which y > 297.0000833 - k and y > 297 - k agree
pageHeight == 297
margin == 15

priorityColors ==
    [ critical |-> <<220, 38, 38>>, high |-> <<245, 158, 11>>,
      medium |-> <<59, 130, 246>>, low |-> <<34, 197, 94>> ]

\* the characters of the priority and status words
Spelling ==
    [ critical |-> <<"c", "r", "i", "t", "i", "c", "a", "l">>,
      high |-> <<"h", "i", "g", "h">>,
      medium |-> <<"m", "e", "d", "i", "u", "m">>,
      low |-> <<"l", "o", "w">>,
      open |-> <<"o", "p", "e", "n">>,
      resolved |-> <<"r", "e", "s", "o", "l", "v", "e", "d">> ]
      @@ ("in-progress" :> <<"i", "n", "-", "p", "r", "o", "g", "r", "e", "s", "s">>)

UpperCaseOf ==
    [ a |-> "A", c |-> "C", d |-> "D", e |-> "E", g |-> "G", h |-> "H", i |-> "I",
      l |-> "L", m |-> "M", n |-> "N", o |-> "O", p |-> "P", r |-> "R", s |-> "S",
      t |-> "T", u |-> "U", v |-> "V", w |-> "W" ]

\* String.prototype.toUpperCase
toUpperCase(s) == [i \in 1..Len(s) |-> IF s[i] \in DOMAIN UpperCaseOf THEN UpperCaseOf[s[i]] ELSE s[i]]

\* a status printed as it is stored
replace_none(s, pattern, replacement) == s

\* String.prototype.replace(pattern, replacement) with a one-character string
\* pattern: the first occurrence only
replace(s, pattern, replacement) ==
    IF \E i \in 1..Len(s) : s[i] = pattern
    THEN LET at == CHOOSE i \in 1..Len(s) : s[i] = pattern /\ \A j \in 1..(i - 1) : s[j] # pattern
         IN  [s EXCEPT ![at] = replacement]
    ELSE s

\* `${snag.location || 'No location'}: ${snag.description || 'No description'}`
SummaryLine(snag) ==
    << IF snag.location = "" THEN "No location" ELSE snag.location, ": ",
       IF snag.description = "" THEN "No description" ELSE snag.description >>

\* `Priority: ${snag.priority.toUpperCase()} | Status: ${snag.status.replace('-', ' ').toUpperCase()}`
SecondaryLine(snag) ==
    <<"P", "r", "i", "o", "r", "i", "t", "y", ":", " ">>
        \o toUpperCase(Spelling[snag.priority])
        \o <<" ", "|", " ", "S", "t", "a", "t", "u", "s", ":", " ">>
        \o toUpperCase(replace(Spelling[snag.status], "-", " "))

\* pdf.text(text, x, y)
Text(d, kind, text, x, y) ==
    [d EXCEPT !.ops = Append(@, [op |-> "text", kind |-> kind, page |-> d.page,
                                 x |-> x, y |-> y, text |-> text])]

\* pdf.setFillColor(...color); pdf.circle(x, y, 2, 'F')
Circle(d, color, x, y) ==
    [d EXCEPT !.ops = Append(@, [op |-> "circle", kind |-> "marker", page |-> d.page,
                                 x |-> x, y |-> y, text |-> color])]

Advance(d, dy) == [d EXCEPT !.y = @ + dy]

\* a page break that leaves the cursor where it was
AddPage_keepY(d) == [d EXCEPT !.page = @ + 1]

\* pdf.addPage(); y = margin
AddPage(d) == [d EXCEPT !.page = @ + 1, !.y = margin]

\* title page and summary: y runs from 80 to the start of the room list
Cover(report) ==
    LET notSpecified == <<"Not specified">>
        or(value) == IF value = "" THEN notSpecified ELSE <<value>>
        d0 == [page |-> 1, y |-> 80, ops |-> <<>>]
        d1 == Text(Text(d0, "cover", <<"Snagging List Report">>, margin, 35),
                   "cover", <<"Professional New Build Defects Report">>, margin, 45)
        d2 == Advance(Text(d1, "cover", <<"Property Details">>, margin, d1.y), 10)
        d3 == Advance(Text(d2, "cover",
                           <<"Address: ">> \o (IF report.propertyAddress = <<>> THEN notSpecified
                                               ELSE report.propertyAddress), margin, d2.y), 8)
        d4 == Advance(Text(d3, "cover", <<"Plot Number: ">> \o or(report.plotNumber), margin, d3.y), 8)
        d5 == Advance(Text(d4, "cover", <<"Client: ">> \o or(report.clientName), margin, d4.y), 8)
        d6 == Advance(Text(d5, "cover", <<"Developer: ">> \o or(report.developerName), margin, d5.y), 8)
        d7 == Advance(Text(d6, "cover",
                           <<"Inspection Date: ">> \o (IF report.inspectionDate = <<>> THEN notSpecified
                                                       ELSE report.inspectionDate), margin, d6.y), 15)
        d8 == Advance(Text(d7, "cover", <<"Summary">>, margin, d7.y), 10)
        d9 == Advance(Text(d8, "cover", <<"Total Snags: ", totalSnags(report)>>, margin, d8.y), 8)
        d10 == Advance(Text(d9, "cover", <<"Open Snags: ", openSnags(report)>>, margin, d9.y), 8)
    IN  Advance(Text(d10, "cover", <<"Critical Items: ", criticalSnags(report)>>, margin, d10.y), 15)

\* a snag loop that never starts a page
SnagBreak_never(y) == FALSE

\* a snag threshold that leaves room for one line only
SnagBreak_late(y) == y > pageHeight - 10

\* if (y > pageHeight - 30), ahead of a snag entry
SnagBreak(y) == y > pageHeight - 30

\* a room threshold equal to the snag threshold
RoomBreak_late(y) == y > pageHeight - 30

\* if (y > pageHeight - 40), ahead of a room heading
RoomBreak(y) == y > pageHeight - 40

\* a room loop that skips no room
Skipped_never(room) == FALSE

\* if (room.snags.length === 0) continue
Skipped(room) == Len(room.snags) = 0

\* one pass of the body of for (const snag of room.snags)
SnagEntry(d, snag) ==
    LET d1 == IF SnagBreak(d.y) THEN AddPage(d) ELSE d
        d2 == Circle(d1, priorityColors[snag.priority], margin + 2, d1.y - 1)
        d3 == Advance(Text(d2, "summary", SummaryLine(snag), margin + 8, d2.y), 6)
    IN  Advance(Text(d3, "secondary", SecondaryLine(snag), margin + 8, d3.y), 10)

\* for (const snag of room.snags) { ... }, from the i-th snag on
RECURSIVE SnagEntries(_, _, _)
SnagEntries(d, snags, i) ==
    IF i > Len(snags) THEN d
    ELSE Then(SnagEntry(d, snags[i]), LAMBDA next : SnagEntries(next, snags, i + 1))

\* the heading of a room that has snags
RoomHeading(d, room) ==
    LET d1 == IF RoomBreak(d.y) THEN AddPage(d) ELSE d
    IN  Advance(Text(d1, "heading", <<room.name>>, margin, d1.y), 8)

\* for (const room of currentReport.rooms) { ... }, from the i-th room on
RECURSIVE RoomSections(_, _, _)
RoomSections(d, rooms, i) ==
    IF i > Len(rooms) THEN d
    ELSE IF Skipped(rooms[i]) THEN RoomSections(d, rooms, i + 1)
    ELSE Then(RoomHeading(d, rooms[i]), LAMBDA d2 :
         Then(SnagEntries(d2, rooms[i].snags, 1), LAMBDA d3 :
         Then(Advance(d3, 5), LAMBDA d4 : RoomSections(d4, rooms, i + 1))))

\* the document pdf.save writes: its drawing calls, its pages, the cursor at
\* the end and the file name
ExportPDF(report) ==
    LET d == Then(Cover(report), LAMBDA d0 : RoomSections(d0, report.rooms, 1))
    IN  [ops |-> d.ops, pages |-> d.page, y |-> d.y, file |-> FileName(report.propertyAddress)]

\* an export that counts as a save of the editor's report
handleExportPDF_stamp ==
    /\ EditorMounted
    /\ \E surface \in BOOLEAN :
          pdf' = IF surface THEN ExportPDF(currentReport) ELSE pdf
    /\ currentReport' = UpdatedReport(currentReport, now)
    /\ UNCHANGED <<now, reports, store, currentView, currentReportId,
                   pending, rand, edits>>

\* reportRef.current is the mounted root element, null when there is none
handleExportPDF ==
    /\ EditorMounted
    /\ \E surface \in BOOLEAN :
          pdf' = IF surface THEN ExportPDF(currentReport) ELSE pdf
    /\ UNCHANGED <<now, reports, store, currentView, currentReportId, currentReport,
                   pending, rand, edits>>

----------------------------------------------------------------------------

Next ==
    \/ Tick
    \/ handleNewReport
    \/ handleOpenReport
    \/ handleDeleteReport
    \/ handleStatusChange
    \/ handleBackToDashboard
    \/ Crash
    \/ handleSave
    \/ handlePropertyUpdate
    \/ handleAddSnag
    \/ handleUpdateSnag
    \/ handleDeleteSnag
    \/ handlePhotoUpload
    \/ \E i \in 1..MaxEdits : onloadend(i)
    \/ handleRemovePhoto

Spec == Init /\ [][Next]_vars

----------------------------------------------------------------------------
(* Export of a report that holds many snags: the editor is open on a saved   *)
(* report whose first selected room got n1 snags and whose second selected  *)
(* room got n2 snags, one per clock value, all patched alike                *)

PdfAddresses == { <<>>, <<" ">>, <<" ", " ">>, Address, <<"A", " ">> }

PdfSamples ==
    [ priority : SnagPriority, status : SnagStatus, described : BOOLEAN,
      address : PdfAddresses ]

\* the snag added at clock value t and patched as the sample says
PdfSnag(t, sample) ==
    Spread(NewSnag(t),
           [ location |-> IF sample.described THEN ToString(t) ELSE "",
             description |-> IF sample.described THEN "Leak" ELSE "",
             priority |-> sample.priority,
             status |-> sample.status ])

PdfReport(n1, n2, sample) ==
    LET created == PropertyUpdate(NewReport(0), "propertyAddress", sample.address)
        first == CHOOSE i \in SelectedRooms : \A j \in SelectedRooms : i <= j
        second == CHOOSE i \in SelectedRooms : \A j \in SelectedRooms : i >= j
    IN  [created EXCEPT !.rooms = [i \in 1..Len(created.rooms) |->
            IF i = first
            THEN [created.rooms[i] EXCEPT !.snags = [j \in 1..n1 |-> PdfSnag(j, sample)]]
            ELSE IF i = second
            THEN [created.rooms[i] EXCEPT !.snags = [j \in 1..n2 |-> PdfSnag(n1 + j, sample)]]
            ELSE created.rooms[i]]]

InitPDF ==
    \E n1 \in 0..MaxRoomSnags, n2 \in 0..MaxSecondRoom, sample \in PdfSamples :
        /\ now = n1 + n2
        /\ currentReport = PdfReport(n1, n2, sample)
        /\ reports = <<UpdatedReport(currentReport, now)>>
        /\ store = Persist(reports)
        /\ currentView = "editor"
        /\ currentReportId = currentReport.id
        /\ pending = <<>>
        /\ rand = 0
        /\ edits = 2 + 5 * (n1 + n2)
        /\ pdf = <<>>

NextPDF == handleExportPDF

SpecPDF == InitPDF /\ [][NextPDF]_vars

----------------------------------------------------------------------------
(* Properties *)

Positions(report) ==
    UNION {{<<i, j>> : j \in 1..Len(report.rooms[i].snags)} : i \in 1..Len(report.rooms)}
SnagAt(report, pos) == report.rooms[pos[1]].snags[pos[2]]
IsPrefix(s, t) == Len(s) <= Len(t) /\ SubSeq(t, 1, Len(s)) = s

\* C1: every completion of a file read of a batch, applied to a snag whose
\* photo sequence still begins with the photos it had when the batch was
\* started (nothing but completions touched it), keeps every photo the snag
\* has and adds exactly one: no completion overwrites a photo added by another.
C1_NoLostPhoto ==
    [][\A i \in 1..Len(pending) :
          LET read == pending[i]
              before == FindSnag(currentReport, read.roomId, read.snagId)
              after == FindSnag(currentReport', read.roomId, read.snagId)
          IN  (onloadend(i) /\ before # Null /\ IsPrefix(read.photos, before.photos))
                  => /\ Len(after.photos) = Len(before.photos) + 1
                     /\ IsPrefix(before.photos, after.photos)]_vars

\* C2: in every editor state no two snags of the report, in the same room or
\* in different rooms, have the same id.
C2_SnagIdsUnique ==
    EditorMounted =>
        \A p, q \in Positions(currentReport) :
            p # q => SnagAt(currentReport, p).id # SnagAt(currentReport, q).id

\* C3: adding a snag to a room and then deleting the snag with the id just
\* assigned gives back the room's snag sequence, and the whole report.
C3_AddDeleteRoundTrip ==
    EditorMounted =>
        \A roomId \in RoomIdInputs(currentReport) :
            DeleteSnag(AddSnag(currentReport, roomId, NewSnag(now)), roomId, NewSnag(now).id)
                = currentReport

\* C4: deleting a snag twice gives the same report as deleting it once, and
\* deleting a snag that is not in the room changes nothing.
C4_DeleteIdempotent ==
    EditorMounted =>
        \A roomId \in RoomIdInputs(currentReport), snagId \in SnagIdInputs(currentReport) :
            LET once == DeleteSnag(currentReport, roomId, snagId)
            IN  /\ DeleteSnag(once, roomId, snagId) = once
                /\ FindSnag(currentReport, roomId, snagId) = Null => once = currentReport

\* a room with two snags of different ids, of which deleting one removes something
C4_Witness ==
    /\ EditorMounted
    /\ \E room \in Range(currentReport.rooms) :
          /\ Len(room.snags) = 2
          /\ room.snags[1].id # room.snags[2].id
          /\ DeleteSnag(currentReport, room.id, room.snags[2].id) # currentReport

\* snag ids that name no snag of the room: never assigned, of another room, or
\* of a snag deleted while a file read for it is pending
NotFoundInputs ==
    { rs \in RoomIdInputs(currentReport)
               \X (SnagIdInputs(currentReport) \cup {pending[i].snagId : i \in 1..Len(pending)}) :
        FindSnag(currentReport, rs[1], rs[2]) = Null }

\* C5: when the room id names no room of the report or the snag id names no
\* snag of that room, handleAddSnag, handleUpdateSnag, handleDeleteSnag,
\* handleRemovePhoto and the completion of a file read leave the report as it is.
C5_NotFoundIsNoOp ==
    EditorMounted =>
        /\ AddSnag(currentReport, NoSuchRoom, NewSnag(now)) = currentReport
        /\ \A rs \in NotFoundInputs :
              /\ \A updates \in SnagPatches :
                    UpdateSnag(currentReport, rs[1], rs[2], updates) = currentReport
              /\ DeleteSnag(currentReport, rs[1], rs[2]) = currentReport
              /\ \A photoId \in PhotoIdInputs(currentReport) :
                    RemovePhoto(currentReport, rs[1], rs[2], photoId) = currentReport
        /\ \A i \in 1..Len(pending) :
              FindSnag(currentReport, pending[i].roomId, pending[i].snagId) = Null
                  => LoadEnd(currentReport, pending[i], now, rand) = currentReport

\* a read is pending for a snag deleted since it was started, while a snag of
\* the same id lives in another room
C5_Witness ==
    /\ EditorMounted
    /\ \E i \in 1..Len(pending) :
          /\ pending[i].roomId # NoSuchRoom
          /\ pending[i].snagId # NoSuchSnag
          /\ FindSnag(currentReport, pending[i].roomId, pending[i].snagId) = Null
          /\ \E p \in Positions(currentReport) : SnagAt(currentReport, p).id = pending[i].snagId

\* C6: handleUpdateSnag changes only the patched fields of the one snag at
\* (roomId, snagId): every other snag of the room, every other room and the
\* report's scalar fields are as before.
C6_UpdateSnagFrame ==
    EditorMounted =>
        \A rs \in SnagInputs(currentReport), updates \in SnagPatches :
            FindSnag(currentReport, rs[1], rs[2]) # Null =>
                LET after == UpdateSnag(currentReport, rs[1], rs[2], updates)
                    ri == CHOOSE k \in 1..Len(currentReport.rooms) :
                              currentReport.rooms[k].id = rs[1]
                    snags == currentReport.rooms[ri].snags
                    si == CHOOSE j \in 1..Len(snags) :
                              snags[j].id = rs[2] /\ \A k \in 1..(j - 1) : snags[k].id # rs[2]
                IN  /\ \A f \in DOMAIN currentReport \ {"rooms"} : after[f] = currentReport[f]
                    /\ Len(after.rooms) = Len(currentReport.rooms)
                    /\ \A k \in 1..Len(currentReport.rooms) :
                          k # ri => after.rooms[k] = currentReport.rooms[k]
                    /\ after.rooms[ri].id = currentReport.rooms[ri].id
                    /\ after.rooms[ri].name = currentReport.rooms[ri].name
                    /\ Len(after.rooms[ri].snags) = Len(snags)
                    /\ \A j \in 1..Len(snags) : j # si => after.rooms[ri].snags[j] = snags[j]
                    /\ \A f \in DOMAIN snags[si] :
                          after.rooms[ri].snags[si][f] =
                              IF f \in DOMAIN updates THEN updates[f] ELSE snags[si][f]

DescriptiveFields ==
    {"propertyAddress", "developerName", "clientName", "plotNumber", "inspectionDate"}

\* C7: handlePropertyUpdate on a descriptive field sets that field and keeps
\* the report's id, createdAt, lastModified, status, cover photo, rooms and
\* the other descriptive fields.
C7_PropertyUpdateFrame ==
    EditorMounted =>
        \A fv \in FieldInputs :
            LET after == PropertyUpdate(currentReport, fv[1], fv[2])
            IN  /\ fv[1] \in DescriptiveFields
                /\ DOMAIN after = DOMAIN currentReport
                /\ after[fv[1]] = fv[2]
                /\ \A f \in DOMAIN currentReport \ {fv[1]} : after[f] = currentReport[f]

\* a report whose address was patched after it got a snag and was saved
C7_Witness ==
    /\ EditorMounted
    /\ currentReport.propertyAddress = Address
    /\ currentReport.lastModified > currentReport.createdAt
    /\ totalSnags(currentReport) > 0

Recount(report, T(_)) == Cardinality({p \in Positions(report) : T(SnagAt(report, p))})

\* C8: the editor's counts equal a recount of the report being edited (total:
\* all snags, open: status open, critical: priority critical), and each
\* dashboard entry's totalSnags and openSnags equal a recount of its report.
C8_CountsAreRecounts ==
    /\ EditorMounted =>
          /\ totalSnags(currentReport) = Recount(currentReport, LAMBDA s : TRUE)
          /\ openSnags(currentReport) = Recount(currentReport, LAMBDA s : s.status = "open")
          /\ criticalSnags(currentReport) =
                 Recount(currentReport, LAMBDA s : s.priority = "critical")
    /\ Len(dashboardReports) = Len(reports)
    /\ \A k \in 1..Len(reports) :
          /\ dashboardReports[k].id = reports[k].id
          /\ dashboardReports[k].totalSnags = Recount(reports[k], LAMBDA s : TRUE)
          /\ dashboardReports[k].openSnags = Recount(reports[k], LAMBDA s : s.status = "open")

\* two snags in one room, one of them resolved, saved to the collection
C8_Witness ==
    /\ EditorMounted
    /\ \E room \in Range(currentReport.rooms) : Len(room.snags) = 2
    /\ openSnags(currentReport) = 1
    /\ \E k \in 1..Len(reports) :
          dashboardReports[k].totalSnags = 2 /\ dashboardReports[k].openSnags = 1

\* C9: a step that is not handleSave leaves the lastModified of every report
\* of the collection, and of the report being edited, as it was (a new report
\* is appended, a deleted one is dropped); handleSave sets the lastModified of
\* the saved report to the current time.
C9_OnlySaveStampsLastModified ==
    [][/\ Len(reports') = Len(reports) =>
            \A k \in 1..Len(reports) :
                reports'[k].lastModified # reports[k].lastModified
                    => handleSave /\ reports'[k].lastModified = now
       /\ Len(reports') > Len(reports) =>
            \A k \in 1..Len(reports) : reports'[k] = reports[k]
       /\ Len(reports') < Len(reports) =>
            \A r \in Range(reports') : r \in Range(reports)
       /\ (EditorMounted /\ currentReport' # Null) =>
            currentReport'.lastModified = currentReport.lastModified
       /\ handleSave =>
            \A k \in 1..Len(reports) :
                reports[k].id = currentReport.id => reports'[k].lastModified = now]_vars

\* a report saved after the clock advanced, next to a report never saved
C9_Witness ==
    /\ Len(reports) = 2
    /\ reports[1].lastModified > reports[1].createdAt
    /\ reports[2].lastModified = reports[2].createdAt
    /\ reports[1].id # reports[2].id

\* C10: every report of the collection, and the report being edited, has
\* lastModified >= createdAt, and no step changes the createdAt of a report.
C10_TimestampsOrdered ==
    /\ [](/\ \A r \in Range(reports) : r.lastModified >= r.createdAt
          /\ EditorMounted => currentReport.lastModified >= currentReport.createdAt)
    /\ [][/\ Len(reports') >= Len(reports) =>
               \A k \in 1..Len(reports) : reports'[k].createdAt = reports[k].createdAt
          /\ Len(reports') < Len(reports) =>
               \A r \in Range(reports') : r \in Range(reports)
          /\ (EditorMounted /\ currentReport' # Null) =>
               currentReport'.createdAt = currentReport.createdAt]_vars

\* a report created at clock 0, edited, saved at clock 1 and marked complete
C10_Witness ==
    \E r \in Range(reports) :
        /\ r.createdAt = 0
        /\ r.lastModified > r.createdAt
        /\ r.status = "complete"
        /\ Recount(r, LAMBDA s : TRUE) > 0

\* C11: no two reports of the collection share an id (two creations that read
\* the same clock value included), so that handleSaveReport, handleStatusChange
\* and handleDeleteReport each reach exactly one report.
C11_ReportIdsUnique ==
    \A i, j \in 1..Len(reports) : i # j => reports[i].id # reports[j].id

\* C12: handleNewReport appends exactly one report and leaves the reports
\* already in the collection as they were; the new report has status working,
\* createdAt = lastModified = the clock value, no cover photo, empty address,
\* developer, client and plot fields, and the 20 catalog rooms in catalog
\* order, each without snags and with an id no other room of the report has.
C12_NewReportShape ==
    [][handleNewReport =>
          /\ Len(reports') = Len(reports) + 1
          /\ \A k \in 1..Len(reports) : reports'[k] = reports[k]
          /\ LET r == reports'[Len(reports')]
             IN  /\ r.status = "working"
                 /\ r.createdAt = now
                 /\ r.lastModified = now
                 /\ r.coverPhoto = Null
                 /\ r.propertyAddress = <<>>
                 /\ r.developerName = ""
                 /\ r.clientName = ""
                 /\ r.plotNumber = ""
                 /\ Len(r.rooms) = 20
                 /\ \A i \in 1..Len(r.rooms) :
                       /\ r.rooms[i].name = DEFAULT_ROOMS[i]
                       /\ r.rooms[i].snags = <<>>
                 /\ \A i, j \in 1..Len(r.rooms) :
                       i # j => r.rooms[i].id # r.rooms[j].id]_vars

\* a second report just created next to a report that holds a saved snag
C12_Witness ==
    /\ Len(reports) = 2
    /\ EditorMounted
    /\ \E i \in 1..Len(reports[1].rooms) : Len(reports[1].rooms[i].snags) > 0
    /\ reports[2].createdAt = now
    /\ reports[2].id # reports[1].id
    /\ currentReport = reports[2]

\* the ids and names of a report's rooms, in order
RoomShape(report) ==
    [i \in 1..Len(report.rooms) |-> <<report.rooms[i].id, report.rooms[i].name>>]

\* the room ids and names handleNewReport gives a report created at clock value t
CreatedShape(t) == [i \in 1..Len(DEFAULT_ROOMS) |-> <<RoomId(i - 1, t), DEFAULT_ROOMS[i]>>]

\* C13: whatever editor operations, saves and dashboard status changes have
\* run, every report of the collection and the report in the editor has the
\* room ids and names, in the order, that handleNewReport gave it at creation.
C13_RoomsFixed ==
    /\ \A r \in Range(reports) : RoomShape(r) = CreatedShape(r.createdAt)
    /\ EditorMounted => RoomShape(currentReport) = CreatedShape(currentReport.createdAt)

\* a saved report marked complete on the dashboard whose snag holds a photo
C13_Witness ==
    \E r \in Range(reports) :
        /\ r.status = "complete"
        /\ \E i \in 1..Len(r.rooms) :
              \E j \in 1..Len(r.rooms[i].snags) : Len(r.rooms[i].snags[j].photos) > 0

\* C14: handleAddSnag on a room of the report puts exactly one snag at the end
\* of that room's list, with empty location and description, priority medium,
\* status open, no photos and createdAt = the clock value; the snags already in
\* the room keep their content and order, and the other rooms and the report's
\* own fields stay as they were.
C14_AddSnagAppends ==
    EditorMounted =>
        \A roomId \in RoomIdInputs(currentReport) \ {NoSuchRoom} :
            LET after == AddSnag(currentReport, roomId, NewSnag(now))
            IN  /\ \A f \in DOMAIN currentReport \ {"rooms"} : after[f] = currentReport[f]
                /\ Len(after.rooms) = Len(currentReport.rooms)
                /\ \A i \in 1..Len(currentReport.rooms) :
                      LET room == currentReport.rooms[i]
                          snags == after.rooms[i].snags
                      IN  IF room.id = roomId
                          THEN /\ after.rooms[i].id = room.id
                               /\ after.rooms[i].name = room.name
                               /\ Len(snags) = Len(room.snags) + 1
                               /\ SubSeq(snags, 1, Len(room.snags)) = room.snags
                               /\ snags[Len(snags)].location = ""
                               /\ snags[Len(snags)].description = ""
                               /\ snags[Len(snags)].priority = "medium"
                               /\ snags[Len(snags)].status = "open"
                               /\ snags[Len(snags)].photos = <<>>
                               /\ snags[Len(snags)].createdAt = now
                          ELSE after.rooms[i] = room

\* a room whose described snag is followed by a snag just added, next to a
\* room that holds no snag
C14_Witness ==
    /\ EditorMounted
    /\ \E i, k \in 1..Len(currentReport.rooms) :
          /\ Len(currentReport.rooms[k].snags) = 0
          /\ Len(currentReport.rooms[i].snags) = 2
          /\ currentReport.rooms[i].snags[1].location = "Under sink"
          /\ currentReport.rooms[i].snags[2].location = ""
          /\ currentReport.rooms[i].snags[2].createdAt = now

\* C15: handleStatusChange(id, status) sets the status of the report with that
\* id and nothing else: that report keeps every other field (lastModified,
\* createdAt, descriptive fields, rooms), every other report of the collection
\* is unchanged, the collection keeps its length and order, and an id no report
\* has leaves the collection unchanged.
C15_StatusChangeFrame ==
    \A id \in {r.id : r \in Range(reports)} \cup {NoSuchReport}, status \in StatusInputs :
        LET after == StatusChanged(reports, id, status)
            hit == {k \in 1..Len(reports) : reports[k].id = id}
        IN  /\ Len(after) = Len(reports)
            /\ hit = {} => after = reports
            /\ hit # {} =>
                  LET k == CHOOSE k \in hit : \A j \in hit : k <= j
                  IN  /\ after[k].status = status
                      /\ \A f \in DOMAIN reports[k] \ {"status"} : after[k][f] = reports[k][f]
                      /\ \A j \in 1..Len(reports) : j # k => after[j] = reports[j]

\* the fields of a report an editor operation can change
ContentFields(report) == DOMAIN report \ {"lastModified"}

\* C16 as stated: once an edit has been applied and the effects have run, the
\* store holds the serialization of the in-memory report state, the report in
\* the editor with its latest edit included.
C16_EveryEditStored ==
    /\ Load(store) = reports
    /\ EditorMounted =>
          \E k \in 1..Len(Load(store)) :
              /\ Load(store)[k].id = currentReport.id
              /\ \A f \in ContentFields(currentReport) : Load(store)[k][f] = currentReport[f]

\* C16, amended: every change of the report collection (create, delete, status
\* change, save) is followed by a persistence write, so the store always holds
\* the serialization of the collection; an editor operation changes the
\* editor's working copy only and writes nothing, and handleSave stores the
\* working copy, its edits included, under the report's id.
C16_CollectionStored ==
    /\ [](store = Persist(reports))
    /\ [][(EditorMounted /\ currentReport' # Null /\ currentReport' # currentReport)
              => store' = store]_vars
    /\ [][handleSave =>
              \A k \in 1..Len(reports) :
                  reports[k].id = currentReport.id =>
                      \A f \in ContentFields(currentReport) :
                          Load(store')[k][f] = currentReport[f]]_vars

\* the store holds a saved snag of the report in the editor, and the editor
\* has since described the snag without saving
C16_Witness ==
    /\ EditorMounted
    /\ \E k \in 1..Len(Load(store)) :
          /\ Load(store)[k].id = currentReport.id
          /\ Load(store)[k].lastModified > currentReport.lastModified
          /\ \E i \in 1..Len(currentReport.rooms) :
                /\ Len(Load(store)[k].rooms[i].snags) = 1
                /\ Len(currentReport.rooms[i].snags) = 1
                /\ Load(store)[k].rooms[i].snags[1].location = ""
                /\ currentReport.rooms[i].snags[1].location = "Under sink"

\* report b is report a, or a after one editor operation: one field update, one
\* snag added, patched or deleted, or one change of the photo list of a snag
\* (a photo read completing, a photo removed)
WithinOneEdit(a, b) ==
    \/ a = b
    \/ \E fv \in FieldInputs : PropertyUpdate(a, fv[1], fv[2]) = b
    \/ \E roomId \in RoomIdInputs(a), t \in 0..MaxClock : AddSnag(a, roomId, NewSnag(t)) = b
    \/ \E rs \in SnagInputs(a) :
          \/ \E updates \in SnagPatches : UpdateSnag(a, rs[1], rs[2], updates) = b
          \/ DeleteSnag(a, rs[1], rs[2]) = b
          \/ /\ FindSnag(b, rs[1], rs[2]) # Null
             /\ UpdateSnag(a, rs[1], rs[2], [photos |-> FindSnag(b, rs[1], rs[2]).photos]) = b

Orders(n) == {o \in [1..n -> 1..n] : \A i, j \in 1..n : i # j => o[i] # o[j]}

\* the editor's report once the reads have completed in the given order, the
\* k-th completion drawing r + k - 1
RECURSIVE Completions(_, _, _, _, _)
Completions(report, reads, order, t, r) ==
    IF order = <<>> THEN report
    ELSE Completions(LoadEnd(report, reads[Head(order)], t, r), reads, Tail(order), t, r + 1)

Names(photos) == [i \in 1..Len(photos) |-> photos[i].name]

\* batches of files that all read successfully, told apart by name
ReadableFiles == { [name |-> "a.jpg", result |-> "data:image/jpeg;base64,a"],
                   [name |-> "c.jpg", result |-> "data:image/jpeg;base64,c"] }
ReadableLists == UNION {[1..n -> ReadableFiles] : n \in 1..MaxBatch}

\* C18: when the reads of one handlePhotoUpload batch on a snag have all
\* completed, in whatever order, the snag's photo sequence is its earlier
\* photos followed by the photos of the batch in the order of the file list.
C18_BatchKeepsInputOrder ==
    EditorMounted =>
        \A rs \in SnagInputs(currentReport) :
            FindSnag(currentReport, rs[1], rs[2]) # Null =>
                \A files \in ReadableLists, order \in Orders(MaxBatch) :
                    Len(files) = MaxBatch =>
                        LET reads == Reads(currentReport, rs[1], rs[2], files)
                            after == Completions(currentReport, reads, order, now, rand)
                        IN  Names(FindSnag(after, rs[1], rs[2]).photos) =
                                Names(FindSnag(currentReport, rs[1], rs[2]).photos)
                                    \o Names(files)

\* how many photos of the sequence hold the data of the file
PhotosOf(photos, file) ==
    Cardinality({i \in 1..Len(photos) :
                    photos[i].name = file.name /\ photos[i].url = file.result})

\* C19: in a batch where one file's read fails and the others succeed, once
\* all reads have completed, in whatever order and wherever the failing file
\* stands in the list, the snag's photo sequence holds a photo for every file
\* that was read successfully, next to the photos it held before.
C19_DecodeFailureIsolated ==
    EditorMounted =>
        \A rs \in SnagInputs(currentReport) :
            FindSnag(currentReport, rs[1], rs[2]) # Null =>
                \A files \in FileLists :
                    Cardinality({i \in 1..Len(files) : files[i].result = NullString}) = 1 =>
                        \A order \in Orders(Len(files)) :
                            LET before == FindSnag(currentReport, rs[1], rs[2]).photos
                                reads == Reads(currentReport, rs[1], rs[2], files)
                                after == Completions(currentReport, reads, order, now, rand)
                            IN  \A i \in 1..Len(files) :
                                    files[i].result # NullString =>
                                        PhotosOf(FindSnag(after, rs[1], rs[2]).photos, files[i])
                                            > PhotosOf(before, files[i])

\* C20: handleRemovePhoto(roomId, snagId, photoId) takes the photo with that
\* id out of the snag's photo sequence and keeps the snag's other photos in
\* order; every other snag, every room and every report field stays as it was;
\* when the snag has no photo with that id (or there is no such snag) the
\* report is unchanged, and removing twice gives what removing once gives.
C20_RemovePhotoExact ==
    EditorMounted =>
        \A rs \in SnagInputs(currentReport), photoId \in PhotoIdInputs(currentReport) :
            LET after == RemovePhoto(currentReport, rs[1], rs[2], photoId)
                at == {pos \in Positions(currentReport) :
                          /\ currentReport.rooms[pos[1]].id = rs[1]
                          /\ SnagAt(currentReport, pos).id = rs[2]}
            IN  /\ RemovePhoto(after, rs[1], rs[2], photoId) = after
                /\ at = {} => after = currentReport
                /\ at # {} =>
                      LET pos == CHOOSE p \in at : \A q \in at : p[2] <= q[2]
                          snag == SnagAt(currentReport, pos)
                      IN  /\ (\A i \in 1..Len(snag.photos) : snag.photos[i].id # photoId)
                                => after = currentReport
                          /\ \A f \in DOMAIN currentReport \ {"rooms"} :
                                after[f] = currentReport[f]
                          /\ Positions(after) = Positions(currentReport)
                          /\ \A q \in Positions(currentReport) :
                                q # pos => SnagAt(after, q) = SnagAt(currentReport, q)
                          /\ \A f \in DOMAIN snag \ {"photos"} : SnagAt(after, pos)[f] = snag[f]
                          /\ SnagAt(after, pos).photos =
                                SelectSeq(snag.photos, LAMBDA p : p.id # photoId)

\* the drawing calls of the saved document that one statement made, in order
OpsOf(kind) == SelectSeq(pdf.ops, LAMBDA o : o.kind = kind)

\* the snags of the report in document order: room by room, then as inserted
RECURSIVE SnagsFrom(_, _)
SnagsFrom(rooms, i) ==
    IF i > Len(rooms) THEN <<>> ELSE rooms[i].snags \o SnagsFrom(rooms, i + 1)

Exported == pdf # <<>>

\* C21: no snag entry is split across a page boundary: in every exported
\* document the k-th marker, summary line and secondary line lie on one page,
\* each at a vertical position inside the page, not below pageHeight - margin.
C21_EntryOnOnePage ==
    Exported =>
        LET markers == OpsOf("marker")
            summaries == OpsOf("summary")
            secondaries == OpsOf("secondary")
        IN  /\ Len(markers) = Len(summaries)
            /\ Len(secondaries) = Len(summaries)
            /\ \A k \in 1..Len(summaries) :
                  /\ markers[k].page = summaries[k].page
                  /\ secondaries[k].page = summaries[k].page
                  /\ \A o \in {markers[k], summaries[k], secondaries[k]} :
                        o.y > 0 /\ o.y <= pageHeight - margin
                  /\ markers[k].y < summaries[k].y
                  /\ summaries[k].y < secondaries[k].y

\* a document with snag entries on three pages, the last entry of page 1 at the
\* lowest position an entry can take
C21_Witness ==
    /\ Exported
    /\ pdf.pages = 3
    /\ \E k \in 1..Len(OpsOf("secondary")) :
          /\ OpsOf("secondary")[k].page = 1
          /\ OpsOf("secondary")[k].y = 272

\* C22: no room heading is left alone at the bottom of a page: in every
\* exported document each heading is followed at once by the marker of the
\* room's first snag, drawn on the heading's page; and wherever on a page the
\* cursor stands when a heading is due, the snag threshold is not exceeded
\* right after the heading.
C22_HeadingWithFirstSnag ==
    /\ Exported =>
          \A k \in 1..Len(pdf.ops) :
              pdf.ops[k].kind = "heading" =>
                  /\ k < Len(pdf.ops)
                  /\ pdf.ops[k + 1].kind = "marker"
                  /\ pdf.ops[k + 1].page = pdf.ops[k].page
                  /\ pdf.ops[k + 1].y > pdf.ops[k].y
    /\ \A y \in 0..pageHeight :
          ~SnagBreak(RoomHeading([page |-> 1, y |-> y, ops |-> <<>>],
                                 [name |-> "Kitchen"]).y)

\* a document whose second heading is as low on page 1 as the room threshold
\* lets a heading be
C22_Witness ==
    /\ Exported
    /\ Len(OpsOf("heading")) = 2
    /\ OpsOf("heading")[2].page = 1
    /\ OpsOf("heading")[2].y = 255

\* C23: the summary lines of an exported document are the summary lines of the
\* report's snags, each once, room by room and in insertion order, on pages
\* that never decrease along that order; and when the report has one room with
\* snags and more of them than the 6 the first page holds, the document has
\* more than one page.
C23_EverySnagOnceInOrder ==
    Exported =>
        LET snags == SnagsFrom(currentReport.rooms, 1)
            summaries == OpsOf("summary")
            filled == {i \in 1..Len(currentReport.rooms) :
                          Len(currentReport.rooms[i].snags) > 0}
        IN  /\ Len(summaries) = Len(snags)
            /\ \A k \in 1..Len(snags) :
                  summaries[k].text =
                      << IF snags[k].location = "" THEN "No location" ELSE snags[k].location,
                         ": ",
                         IF snags[k].description = "" THEN "No description"
                         ELSE snags[k].description >>
            /\ \A k \in 1..(Len(summaries) - 1) : summaries[k].page <= summaries[k + 1].page
            /\ (Cardinality(filled) = 1 /\ Len(snags) > 6) => pdf.pages > 1

\* the document of a report with one filled room of 24 described snags: three
\* pages, the last summary line that of the snag added last
C23_Witness ==
    /\ Exported
    /\ Cardinality({i \in 1..Len(currentReport.rooms) :
                       Len(currentReport.rooms[i].snags) > 0}) = 1
    /\ Len(OpsOf("summary")) = 24
    /\ OpsOf("summary")[24].text = <<"24", ": ", "Leak">>
    /\ OpsOf("summary")[24].page = 3
    /\ OpsOf("summary")[7].page = 2

\* C24: the headings of an exported document are the names of the rooms that
\* have a snag, once each and in room order; a room without snags adds
\* nothing: the document is the one the report gives with its empty rooms
\* taken out, and wherever the cursor stands, passing an empty room draws
\* nothing, starts no page and leaves y as it is.
C24_EmptyRoomsContributeNothing ==
    Exported =>
        LET filled == SelectSeq(currentReport.rooms, LAMBDA room : Len(room.snags) > 0)
            headings == OpsOf("heading")
        IN  /\ Len(headings) = Len(filled)
            /\ \A k \in 1..Len(filled) : headings[k].text = <<filled[k].name>>
            /\ pdf = ExportPDF([currentReport EXCEPT !.rooms = filled])
            /\ \A i \in 1..Len(currentReport.rooms), y \in {margin, pageHeight - 30, pageHeight} :
                  Len(currentReport.rooms[i].snags) = 0 =>
                      LET d == [page |-> 1, y |-> y, ops |-> <<>>]
                      IN  RoomSections(d, <<currentReport.rooms[i]>>, 1) = d

\* a document with the headings of the first and the seventh room only: the
\* five empty rooms between them and the thirteen after them left no trace
C24_Witness ==
    /\ Exported
    /\ Len(OpsOf("heading")) = 2
    /\ OpsOf("heading")[1].text = <<"Front Elevation">>
    /\ OpsOf("heading")[2].text = <<"Kitchen">>
    /\ OpsOf("heading")[2].y = OpsOf("secondary")[1].y + 15
    /\ Len(currentReport.rooms) = 20

\* the priority and status words as the claim prints them: upper case,
\* hyphens as spaces
UpperWords ==
    [ critical |-> <<"C", "R", "I", "T", "I", "C", "A", "L">>,
      high |-> <<"H", "I", "G", "H">>,
      medium |-> <<"M", "E", "D", "I", "U", "M">>,
      low |-> <<"L", "O", "W">>,
      open |-> <<"O", "P", "E", "N">>,
      resolved |-> <<"R", "E", "S", "O", "L", "V", "E", "D">> ]
      @@ ("in-progress" :> <<"I", "N", " ", "P", "R", "O", "G", "R", "E", "S", "S">>)

\* C25 as stated: the secondary line of every snag reads PRIORITY | STATUS,
\* the priority in upper case, " | ", the status in upper case with hyphens as
\* spaces ("CRITICAL | OPEN").
C25_SecondaryLineBare ==
    Exported =>
        LET snags == SnagsFrom(currentReport.rooms, 1)
            secondaries == OpsOf("secondary")
        IN  /\ Len(secondaries) = Len(snags)
            /\ \A k \in 1..Len(snags) :
                  secondaries[k].text =
                      UpperWords[snags[k].priority] \o <<" ", "|", " ">>
                          \o UpperWords[snags[k].status]

\* C25, amended: the secondary line of every snag reads
\* Priority: PRIORITY | Status: STATUS, the two words in upper case and the
\* hyphen of the status as a space ("Priority: CRITICAL | Status: OPEN").
C25_SecondaryLineLabelled ==
    Exported =>
        LET snags == SnagsFrom(currentReport.rooms, 1)
            secondaries == OpsOf("secondary")
        IN  /\ Len(secondaries) = Len(snags)
            /\ \A k \in 1..Len(snags) :
                  secondaries[k].text =
                      <<"P", "r", "i", "o", "r", "i", "t", "y", ":", " ">>
                          \o UpperWords[snags[k].priority]
                          \o <<" ", "|", " ", "S", "t", "a", "t", "u", "s", ":", " ">>
                          \o UpperWords[snags[k].status]

\* a document with the entry of a critical snag that is in progress
C25_Witness ==
    /\ Exported
    /\ Len(OpsOf("secondary")) > 0
    /\ OpsOf("secondary")[1].text =
          << "P", "r", "i", "o", "r", "i", "t", "y", ":", " ",
             "C", "R", "I", "T", "I", "C", "A", "L", " ", "|", " ",
             "S", "t", "a", "t", "u", "s", ":", " ",
             "I", "N", " ", "P", "R", "O", "G", "R", "E", "S", "S" >>

\* C26: the file name of an exported document is fixed by the property
\* address: "snagging-report-", then the address with each run of whitespace
\* as one separator, or the token report when the address is empty or holds
\* whitespace only, then ".pdf".
C26_FileNameOfAddress ==
    Exported =>
        LET address == currentReport.propertyAddress
            blank == \A i \in 1..Len(address) : address[i] = " "
        IN  pdf.file = <<"snagging-report-">>
                          \o (IF blank THEN <<"report">> ELSE CollapseWhitespace(address, 1))
                          \o <<".pdf">>

\* C27: an export, whether it saves a document or gives up for want of a
\* drawing surface, leaves the report state as it was: the editor's report,
\* the report collection and the store are the same after the step, and a
\* step that gives up leaves the last saved document too.
C27_ExportKeepsReportState ==
    [][handleExportPDF =>
          /\ currentReport' = currentReport
          /\ reports' = reports
          /\ store' = store
          /\ pending' = pending
          /\ (pdf' = pdf \/ pdf' = ExportPDF(currentReport))]_vars

\* a document was exported from an editor whose report, with its snags, is
\* still the one the collection and the store hold, save for the save stamp
C27_Witness ==
    /\ Exported
    /\ EditorMounted
    /\ Len(SnagsFrom(currentReport.rooms, 1)) > 0
    /\ store = Persist(reports)
    /\ reports[1].rooms = currentReport.rooms
    /\ reports[1].lastModified > currentReport.lastModified
    /\ pdf = ExportPDF(currentReport)

\* how many snag entries of the first filled room the page holds
EntriesOfFirstRoomOn(page) ==
    LET filled == SelectSeq(currentReport.rooms, LAMBDA room : Len(room.snags) > 0)
        summaries == OpsOf("summary")
    IN  IF filled = <<>> THEN 0
        ELSE Cardinality({k \in 1..Len(filled[1].snags) : summaries[k].page = page})

\* C28: with page height 297 and margin 15, the first room heading of an
\* exported document stands at y = 178 on page 1 and at most 6 entries of that
\* room follow on page 1 (6 when the room has that many); a page that opens
\* with a snag entry at y = margin holds at most 16 entries of the room (16
\* when that many remain); the first thing drawn on a new page is drawn with
\* the cursor at the margin.
C28_PageCapacity ==
    /\ pageHeight = 297
    /\ margin = 15
    /\ Exported =>
          LET headings == OpsOf("heading")
              summaries == OpsOf("summary")
              filled == SelectSeq(currentReport.rooms, LAMBDA room : Len(room.snags) > 0)
              n == IF filled = <<>> THEN 0 ELSE Len(filled[1].snags)
          IN  /\ headings # <<>> => (headings[1].page = 1 /\ headings[1].y = 178)
              /\ EntriesOfFirstRoomOn(1) = (IF n < 6 THEN n ELSE 6)
              /\ Cardinality({k \in 1..Len(summaries) : summaries[k].page = 1}) <= 6
              /\ \A page \in 2..pdf.pages :
                    (\E k \in 1..n : summaries[k].page = page /\ summaries[k].y = margin) =>
                        /\ EntriesOfFirstRoomOn(page) <= 16
                        /\ EntriesOfFirstRoomOn(page) = 16 \/ page = summaries[n].page
              /\ \A k \in 2..Len(pdf.ops) :
                    pdf.ops[k].page # pdf.ops[k - 1].page =>
                        /\ pdf.ops[k].page = pdf.ops[k - 1].page + 1
                        /\ \/ pdf.ops[k].kind = "heading" /\ pdf.ops[k].y = margin
                           \/ /\ pdf.ops[k].kind = "marker"
                              /\ pdf.ops[k + 1].kind = "summary"
                              /\ pdf.ops[k + 1].y = margin

\* a three-page document: 6 entries of the room on page 1, 16 on page 2, the
\* rest on page 3
C28_Witness ==
    /\ Exported
    /\ pdf.pages = 3
    /\ EntriesOfFirstRoomOn(1) = 6
    /\ EntriesOfFirstRoomOn(2) = 16
    /\ EntriesOfFirstRoomOn(3) = 2

\* ids of the photos of the snag, {} when the report has no such snag
PhotoIdsOf(report, roomId, snagId) ==
    LET snag == FindSnag(report, roomId, snagId)
    IN  IF snag = Null THEN {} ELSE {snag.photos[k].id : k \in 1..Len(snag.photos)}

\* C29: in every editor state, for every photo of a snag and every file read
\* still pending, removing the photo with handleRemovePhoto and then letting
\* the read complete leaves the snag without a photo of the removed id.
C29_RemovedPhotoStaysRemoved ==
    EditorMounted =>
        \A rs \in SnagInputs(currentReport) :
            \A photoId \in PhotoIdsOf(currentReport, rs[1], rs[2]) :
                \A i \in 1..Len(pending) :
                    LET removed == RemovePhoto(currentReport, rs[1], rs[2], photoId)
                        after == LoadEnd(removed, pending[i], now, rand)
                    IN  photoId \notin PhotoIdsOf(removed, rs[1], rs[2])
                            => photoId \notin PhotoIdsOf(after, rs[1], rs[2])

\* C30: in every editor state and in every report of the collection, every
\* photo of every snag has an image reference that is not null.
C30_PhotosHaveImage ==
    LET Sound(report) ==
            \A pos \in Positions(report) :
                \A k \in 1..Len(SnagAt(report, pos).photos) :
                    SnagAt(report, pos).photos[k].url # NullString
    IN  /\ EditorMounted => Sound(currentReport)
        /\ \A n \in 1..Len(reports) : Sound(reports[n])

====
